---- MODULE Spec2Model ----
(***************************************************************************)
(* Terminal UI runtime of ovh-terminal: the bubbletea event loop           *)
(* (Model.Update and the handlers package), the expandable menu list       *)
(* (Model.UpdateMenuItems / ToggleItemExpanded), the layout manager and    *)
(* the command facade (BaseCommand.executeWithTimeout, ExecuteAsync), the  *)
(* retry loops (executeWithRetry of the API client and of BaseCommand) and *)
(* the account request of the API client (GetAccountInfo), and the process *)
(* around the UI program (main, setupConfig).                              *)
(***************************************************************************)
EXTENDS Integers, Sequences, FiniteSets, TLC

VARIABLES
    items,          \* m.List.Items(): the flattened menu, a sequence of ListItem
    cursor,         \* m.List.Index(), 1-based
    listW, listH,   \* size given to the list by list.SetSize
    vpW, vpH,       \* m.Viewport.Width / Height
    vpContent,      \* text held by the viewport (Viewport.SetContent)
    vpYOffset,      \* m.Viewport.YOffset: lines scrolled out at the top
    content,        \* m.Content
    statusMessage,  \* m.StatusMessage
    ready,          \* m.Ready
    activePane,     \* m.ActivePane
    width, height,  \* m.Width, m.Height
    showHelp,       \* m.ShowHelp
    quit,           \* Update returned tea.Quit: the program ends the loop
    frame,          \* where the event loop is suspended inside a handler
    call,           \* the activation record of executeWithTimeout
    workers,        \* goroutines started by executeWithTimeout, with resultCh
    lastRet,        \* what the last synchronous Execute returned to its caller
    async,          \* handles returned by ExecuteAsync: goroutine + resultCh
    retry,          \* the activation record of a retry loop (executeWithRetry)
    account,        \* what the last GetAccountInfo returned to its caller
    proc            \* the process: where main is, and its exit code

vars == <<items, cursor, listW, listH, vpW, vpH, vpContent, vpYOffset,
          content, statusMessage, ready, activePane, width, height, showHelp, quit,
          frame, call, workers, lastRet, async,
          retry, account, proc>>

uiVars == <<items, cursor, listW, listH, vpW, vpH, vpContent, vpYOffset,
            content, statusMessage, ready, activePane, width, height, showHelp, quit,
            frame>>

----------------------------------------------------------------------------
(* Bounds of the model *)

\* goroutines of executeWithTimeout that may be alive at the same time
MaxWorkers == 2
\* handles of ExecuteAsync that are handed out
MaxHandles == 2
\* lines of the formatted output of a command: one more than the smallest
\* viewport (15 rows at 80 x 20) shows, so that the content can scroll
OutputLines == 16

(* Program constants *)

MinWidth == 80
MinHeight == 20
MenuWidth == 32
StatusBarSpace == 3
UIElementsSpace == 2
HorizontalSpace == 9
\* defaultConfig.Timeout, in seconds
DefaultTimeout == 30
\* capacity of resultCh in executeWithTimeout and in ExecuteAsync
ResultChCap == 1

----------------------------------------------------------------------------
(* Inputs *)

\* terminal sizes delivered by tea.WindowSizeMsg
WindowSizes == {<<79, 30>>, <<80, 20>>}

\* keys delivered by tea.KeyMsg; "x" stands for any key without a binding
Keys == {"q", "ctrl+c", "f1", "tab", "enter", "g", "G", "up", "down", "x"}

\* a row of a fetched listing: display name and remote identifier
Row(n, i) == [name |-> n, id |-> i]

\* what ServerCommand.ListServers may return (identifier and display name of
\* every server): no server, one server whose display name (free text of the
\* account) reads like a menu header, two servers with the same display
\* name, and two servers of which "s1" has no display name, so that its
\* identifier is used, and sorts after "s2"
ListServersResults ==
    { {},
      {Row("Virtual Private Servers", "s1")},
      {Row("a", "s1"), Row("a", "s2")},
      {Row("s1", "s1"), Row("a", "s2")} }

\* what ListVPS and GetVPSInfo may yield (instances whose info request fails
\* are skipped): no instance, or one
ListVPSResults ==
    { {},
      {Row("a", "v1")} }

\* timeouts a caller can configure through WithTimeout
TimeoutChoices == {-1, 0, 1, DefaultTimeout}

\* lexicographic order of the strings used as display names
NameOrder == <<"Virtual Private Servers", "a", "s1", "s2", "v1">>

NameRank(n) == CHOOSE i \in 1..Len(NameOrder) : NameOrder[i] = n

\* Go's string comparison serverList[i].name < serverList[j].name
NameLess(x, y) == NameRank(x) < NameRank(y)

----------------------------------------------------------------------------
(* Menu items *)

NewListItem(text, itemType, desc, indent, expanded) ==
    [text |-> text, itemType |-> itemType, desc |-> desc,
     indent |-> indent, expanded |-> expanded]

CreateBaseMenuItems ==
    << NewListItem("Account Information", "Header", "", 0, FALSE),
       NewListItem("Bare Metal Cloud", "Header", "", 0, FALSE),
       NewListItem("Web Cloud", "Header", "", 0, FALSE),
       NewListItem("Exit", "Normal", "Exit the application", 0, FALSE) >>

\* commandRegistry: the titles bound to a command
commandRegistry == {"My information", "API information"}

\* ListItem.WithExpanded: a copy of the item with the flag set
WithExpanded(item, e) == [item EXCEPT !.expanded = e]

\* Model.ToggleItemExpanded
ToggleItemExpanded(its, index) ==
    IF index < 1 \/ index > Len(its)
    THEN its
    ELSE [its EXCEPT ![index] = WithExpanded(its[index], ~its[index].expanded)]

----------------------------------------------------------------------------
(* Remote listings used by the dynamic sections of the menu *)

\* sort.Slice(list, name less): the slice is a permutation of the fetched
\* rows with no pair out of order; rows of equal name may come in any order
\* (the sort is not stable and the map iteration order is not fixed)
SortByName(S) ==
    { s \in [1..Cardinality(S) -> S] :
        /\ \A i, j \in 1..Cardinality(S) : i # j => s[i] # s[j]
        /\ \A i, j \in 1..Cardinality(S) : i < j => ~NameLess(s[j].name, s[i].name) }

\* outcome of one remote listing as UpdateMenuItems sees it
FetchError == [err |-> TRUE, rows |-> <<>>]
FetchOk(rows) == [err |-> FALSE, rows |-> rows]
NoFetch == FetchOk(<<>>)

ServerFetches == {FetchError} \cup
    UNION { {FetchOk(s) : s \in SortByName(S)} : S \in ListServersResults }

VpsFetches == {FetchError} \cup
    UNION { {FetchOk(s) : s \in SortByName(S)} : S \in ListVPSResults }

----------------------------------------------------------------------------
(* Model.UpdateMenuItems *)

\* addChildItems: every child is a tree item, the last one a last tree item
addChildItems(children) ==
    [i \in 1..Len(children) |->
        NewListItem(children[i].text,
                    IF i = Len(children) THEN "TreeLastItem" ELSE "TreeItem",
                    children[i].desc, children[i].indent, FALSE)]

\* DynamicRows with the rows of a listing put one level too deep
DynamicRows_TooDeep(res, errTitle) ==
    IF res.err
    THEN << NewListItem(errTitle, "TreeLastItem", "error", 2, FALSE) >>
    ELSE [i \in 1..Len(res.rows) |->
            NewListItem(res.rows[i].name,
                        IF i = Len(res.rows) THEN "TreeLastItem" ELSE "TreeItem",
                        res.rows[i].id, 3, FALSE)]

\* DynamicRows with a failed fetch shown as a section without rows
DynamicRows_NoErrorRow(res, errTitle) ==
    IF res.err
    THEN << >>
    ELSE [i \in 1..Len(res.rows) |->
            NewListItem(res.rows[i].name,
                        IF i = Len(res.rows) THEN "TreeLastItem" ELSE "TreeItem",
                        res.rows[i].id, 2, FALSE)]

\* the rows of a fetched listing (or the synthetic error row)
DynamicRows(res, errTitle) ==
    IF res.err
    THEN << NewListItem(errTitle, "TreeLastItem", "error", 2, FALSE) >>
    ELSE [i \in 1..Len(res.rows) |->
            NewListItem(res.rows[i].name,
                        IF i = Len(res.rows) THEN "TreeLastItem" ELSE "TreeItem",
                        res.rows[i].id, 2, FALSE)]

\* "Find current states": the first old item at indent 1 with that title
OldNested(cur, title) ==
    {i \in 1..Len(cur) : cur[i].indent = 1 /\ cur[i].text = title}

FirstOldNested(cur, title) ==
    CHOOSE i \in OldNested(cur, title) : \A j \in OldNested(cur, title) : i <= j

IsNestedExpanded(cur, title) ==
    /\ OldNested(cur, title) # {}
    /\ cur[FirstOldNested(cur, title)].expanded

\* a nested header and, when it is expanded, its fetched rows
NestedSection(cur, title, desc, res, errTitle) ==
    LET hdr == IF OldNested(cur, title) = {}
               THEN NewListItem(title, "Header", desc, 1, FALSE)
               ELSE cur[FirstOldNested(cur, title)]
    IN  <<hdr>> \o (IF IsNestedExpanded(cur, title)
                    THEN DynamicRows(res, errTitle)
                    ELSE <<>>)

\* ChildrenOf that lists the children of a collapsed header as well
ChildrenOf_IgnoresCollapse(cur, curr, dsRes, vpsRes) ==
    IF curr.itemType # "Header" THEN <<>>
    ELSE IF curr.text = "Account Information" THEN
        addChildItems(<<
            NewListItem("My information", "TreeItem",
                        "View and manage my current information", 1, FALSE),
            NewListItem("API information", "TreeLastItem",
                        "Information about applications and credentials", 1, FALSE) >>)
    ELSE IF curr.text = "Bare Metal Cloud" THEN
        NestedSection(cur, "Dedicated Servers", "View and manage servers",
                      dsRes, "Error loading servers")
        \o NestedSection(cur, "Virtual Private Servers", "Virtual Private Servers",
                         vpsRes, "Error loading VPS instances")
    ELSE IF curr.text = "Web Cloud" THEN
        addChildItems(<<
            NewListItem("Domain names", "TreeItem",
                        "View and manage domain names", 1, FALSE),
            NewListItem("Hosting plans", "TreeLastItem", "", 1, FALSE) >>)
    ELSE <<>>

\* the rows that follow a top-level item
ChildrenOf(cur, curr, dsRes, vpsRes) ==
    IF ~(curr.itemType = "Header" /\ curr.expanded) THEN <<>>
    ELSE IF curr.text = "Account Information" THEN
        addChildItems(<<
            NewListItem("My information", "TreeItem",
                        "View and manage my current information", 1, FALSE),
            NewListItem("API information", "TreeLastItem",
                        "Information about applications and credentials", 1, FALSE) >>)
    ELSE IF curr.text = "Bare Metal Cloud" THEN
        NestedSection(cur, "Dedicated Servers", "View and manage servers",
                      dsRes, "Error loading servers")
        \o NestedSection(cur, "Virtual Private Servers", "Virtual Private Servers",
                         vpsRes, "Error loading VPS instances")
    ELSE IF curr.text = "Web Cloud" THEN
        addChildItems(<<
            NewListItem("Domain names", "TreeItem",
                        "View and manage domain names", 1, FALSE),
            NewListItem("Hosting plans", "TreeLastItem", "", 1, FALSE) >>)
    ELSE <<>>

RECURSIVE BuildFrom(_, _, _, _)
\* the loop over currentItems from position k on: only indent-0 items are
\* kept, each followed by its children
BuildFrom(cur, k, dsRes, vpsRes) ==
    IF k > Len(cur) THEN <<>>
    ELSE (IF cur[k].indent = 0
          THEN <<cur[k]>> \o ChildrenOf(cur, cur[k], dsRes, vpsRes)
          ELSE <<>>)
         \o BuildFrom(cur, k + 1, dsRes, vpsRes)

UpdateMenuItems(cur, dsRes, vpsRes) == BuildFrom(cur, 1, dsRes, vpsRes)

\* whether UpdateMenuItems reaches ListServers / ListVPS for this list
TopExpanded(cur, title) ==
    \E i \in 1..Len(cur) :
        /\ cur[i].indent = 0 /\ cur[i].text = title
        /\ cur[i].itemType = "Header" /\ cur[i].expanded

FetchesServers(cur) ==
    TopExpanded(cur, "Bare Metal Cloud") /\ IsNestedExpanded(cur, "Dedicated Servers")

FetchesVps(cur) ==
    TopExpanded(cur, "Bare Metal Cloud") /\ IsNestedExpanded(cur, "Virtual Private Servers")

\* "Preserve current selection if possible": the index is selected again when
\* it is still in range; otherwise Select is not called
SelectAfterSetItems(currentIndex, updated) ==
    IF currentIndex <= Len(updated) THEN currentIndex ELSE currentIndex

\* "Find our header in the new menu structure and select it"
TitleMatches(its, title) == {i \in 1..Len(its) : its[i].text = title}

SelectByTitle(its, title, idx) ==
    IF TitleMatches(its, title) = {} THEN idx
    ELSE CHOOSE i \in TitleMatches(its, title) :
            \A j \in TitleMatches(its, title) : i <= j

----------------------------------------------------------------------------
(* Layout manager *)

\* ValidateWindowSize with strict comparisons
ValidateWindowSize_Strict(w, h) == w > MinWidth /\ h > MinHeight

\* Manager.ValidateWindowSize
ValidateWindowSize(w, h) == w >= MinWidth /\ h >= MinHeight

\* calculateDimensions without the horizontal allowance
calculateDimensions_NoAllowance(w, h) ==
    [MenuWidth |-> MenuWidth,
     ContentWidth |-> w - MenuWidth,
     ContentHeight |-> h - StatusBarSpace - UIElementsSpace,
     StatusWidth |-> w - 2]

\* Manager.calculateDimensions
calculateDimensions(w, h) ==
    [MenuWidth |-> MenuWidth,
     ContentWidth |-> w - MenuWidth - HorizontalSpace,
     ContentHeight |-> h - StatusBarSpace - UIElementsSpace,
     StatusWidth |-> w - 2]

\* Manager.Update: sizes are applied to the list and the viewport only when
\* the model is ready and the content area is positive
LayoutUpdate(rdy, w, h) ==
    LET dims == calculateDimensions(w, h) IN
    IF rdy /\ dims.ContentWidth > 0 /\ dims.ContentHeight > 0
    THEN /\ listW' = dims.MenuWidth
         /\ listH' = dims.ContentHeight
         /\ vpW' = dims.ContentWidth
         /\ vpH' = dims.ContentHeight
    ELSE UNCHANGED <<listW, listH, vpW, vpH>>

----------------------------------------------------------------------------
(* Results of commands and the state of the command facade *)

Result(output, err) == [output |-> output, err |-> err]
NoResult == Result(<<>>, "")
\* executeCommand returned: the formatted text, or the wrapped API error
OpResult(ok) ==
    IF ok THEN Result(<<"formatted output">>, "") ELSE Result(<<>>, "command failed")
\* errors.New("command execution timed out") with empty output
TimeoutResult == Result(<<>>, "command execution timed out")

IdleFrame == [pc |-> "idle", title |-> "", msg |-> <<>>]
NoCall == [pc |-> "none", w |-> 0, timeout |-> 0, out |-> NoResult]
FreeWorker == [st |-> "free", awaited |-> FALSE, ch |-> <<>>]
UnusedHandle == [st |-> "unused", ch |-> <<>>, closed |-> FALSE, sends |-> 0,
                 recvd |-> <<>>, ctxDone |-> FALSE]

WorkerIds == 1..MaxWorkers
Handles == 1..MaxHandles

FreeSlots == {w \in WorkerIds : workers[w].st = "free"}
FirstFreeSlot == CHOOSE w \in FreeSlots : \A v \in FreeSlots : w <= v

----------------------------------------------------------------------------
(* Model setters *)

\* number of lines of a text shown in the viewport
ContentLines(c) ==
    IF c = <<>> THEN 0
    ELSE IF c = <<"formatted output">> THEN OutputLines
    ELSE 1

\* viewport: the largest offset, which shows the last line at the bottom
MaxYOffset(c, h) == IF ContentLines(c) > h THEN ContentLines(c) - h ELSE 0

\* viewport.Model.Update for a key message: "up" and "down" scroll by a line
ViewportUpdate(k, y, c, h) ==
    IF k = "up" THEN (IF y > 0 THEN y - 1 ELSE 0)
    ELSE IF k = "down" THEN (IF y >= MaxYOffset(c, h) THEN y ELSE y + 1)
    ELSE y

\* Model.SetContent: the viewport takes the text only once it has a width;
\* an offset past the last line of the new text goes to its bottom
SetContent(c) ==
    /\ content' = c
    /\ vpContent' = IF vpW > 0 THEN c ELSE vpContent
    /\ vpYOffset' = IF vpW > 0 /\ vpYOffset > ContentLines(c) - 1
                    THEN MaxYOffset(c, vpH)
                    ELSE vpYOffset

\* ToggleActivePane that only ever switches to the content pane
ToggleActivePane_ToContent(p) == "content"

\* Model.ToggleActivePane
ToggleActivePane(p) == IF p = "menu" THEN "content" ELSE "menu"

\* list.Model.Update for a key message (quit key bindings are disabled by
\* Initialize): cursor movement within the list
ListUpdate(k, idx, n) ==
    IF k = "up" THEN (IF idx > 1 THEN idx - 1 ELSE idx)
    ELSE IF k = "down" THEN (IF idx < n THEN idx + 1 ELSE idx)
    ELSE IF k = "g" THEN 1
    ELSE IF k = "G" THEN (IF n > 0 THEN n ELSE idx)
    ELSE idx

\* the tail of Model.Update: the message also goes to the component of the
\* pane that is active after the handler ran
UpdateActiveComponent(k, pane, idx, n) ==
    IF pane = "menu" THEN ListUpdate(k, idx, n) ELSE idx

\* UpdateActiveViewport with the viewport scrolling whatever pane is active
UpdateActiveViewport_AnyPane(k, pane, y, c, h) == ViewportUpdate(k, y, c, h)

\* the same tail of Model.Update, seen from the viewport
UpdateActiveViewport(k, pane, y, c, h) ==
    IF pane = "menu" THEN y ELSE ViewportUpdate(k, y, c, h)

----------------------------------------------------------------------------
(* Errors of the API layer and the retry loops: api.Client.executeWithRetry *)
(* and BaseCommand.executeWithRetry                                         *)

\* largest retry count (RetryCount, MaxRetries) a caller configures
MaxRetryCount == 3

\* defaultConfig.RetryCount and defaultRetryConfig.MaxRetries / RetryOnCode
DefaultRetryCount == 3
DefaultMaxRetries == 3
RetryOnCode == {408, 429, 500, 502, 503, 504}

\* error values. layer is the Go type of the value, cause the error it wraps
NilErr == [layer |-> "nil", code |-> 0, type |-> "", msg |-> "", cause |-> <<>>]

\* *ovh.APIError with HTTP status c, as the OVH library returns it
OvhAPIError(c) ==
    [layer |-> "ovh.APIError", code |-> c, type |-> "", msg |-> "", cause |-> <<>>]

\* any other error value (errors.New, a network error)
PlainError(m) ==
    [layer |-> "error", code |-> 0, type |-> "", msg |-> m, cause |-> <<>>]

\* api.NewAuthError: an *APIError of type ErrorTypeAuth wrapping err
NewAuthError(m, err) ==
    [layer |-> "APIError", code |-> 0, type |-> "Auth", msg |-> m, cause |-> <<err>>]

\* api.NewAPIError: an *APIError of type ErrorTypeAPI wrapping err; code holds
\* the "status" entry of the details (0 for nil details)
NewAPIError(m, err, status) ==
    [layer |-> "APIError", code |-> status, type |-> "API", msg |-> m, cause |-> <<err>>]

\* ctx.Err() of a cancelled context
CtxErr == PlainError("context canceled")

\* what one invocation of the retried operation returns
AttemptOutcomes ==
    {NilErr, OvhAPIError(503), OvhAPIError(429), OvhAPIError(404), OvhAPIError(401),
     PlainError("connection refused")}

CommandTypes == {"Info", "Action", "Bulk"}

\* the error is an *ovh.APIError whose code is listed in RetryOnCode
RetryOnCodeMatches(err) == err.layer = "ovh.APIError" /\ err.code \in RetryOnCode

\* shouldRetry that retries whatever the error is
shouldRetry_AnyError(n, err, attempt) == attempt < n

\* Client.shouldRetry with c.retry.MaxRetries = n
shouldRetry(n, err, attempt) ==
    IF attempt >= n THEN FALSE ELSE RetryOnCodeMatches(err)

\* commands.IsRetryableError
IsRetryableError(err) == TRUE

\* Client.handleAPIError of the retrying client
handleAPIError(err) ==
    IF err = NilErr THEN NilErr
    ELSE IF err.layer = "ovh.APIError"
         THEN IF err.code \in {401, 403}
              THEN NewAuthError("Authentication failed", err)
              ELSE NewAPIError("API request failed", err, err.code)
         ELSE NewAPIError("Request failed", err, 0)

\* the MaxRetries a caller can configure through WithRetry: any int
ClientRetryCounts == -1..MaxRetryCount

\* no retry loop has been entered yet
NoRetry ==
    [pc |-> "idle", kind |-> "none", cmdType |-> "none", n |-> 0, attempt |-> 0,
     errs |-> <<>>, lastErr |-> NilErr, ctxDone |-> FALSE, out |-> "", ret |-> NilErr]

\* the remote account records a GET /me can deliver
AccountInfos ==
    {[email |-> "a@example.com", customerCode |-> "aa1-ovh"],
     [email |-> "b@example.com", customerCode |-> "bb2-ovh"]}

\* GetAccountInfo has not been called yet
NoAccount ==
    [called |-> FALSE, remoteErr |-> NilErr, remote |-> <<>>, info |-> <<>>, err |-> NilErr]

----------------------------------------------------------------------------
(* The process: main and setupConfig *)

exitSuccess == 0
exitError == 1

\* how setupConfig can end: with the application components, or with the
\* error of one of its steps
SetupOutcomes ==
    {"ok", "config not found", "config invalid", "logging setup failed",
     "api client creation failed", "invalid API credentials"}

\* main has been entered: exitCode is declared (zero value) and the deferred
\* os.Exit(exitCode) is registered
ProcStart ==
    [pc |-> "start", exitCode |-> 0, setup |-> "none", uiStarted |-> FALSE,
     runErr |-> FALSE, panicked |-> FALSE, status |-> -1]

----------------------------------------------------------------------------
(* Initial state: ui.Initialize *)

Init ==
    /\ items = CreateBaseMenuItems
    /\ cursor = 1
    /\ listW = 0 /\ listH = 0
    /\ vpW = 0 /\ vpH = 0
    /\ vpContent = <<>>
    /\ vpYOffset = 0
    /\ content = <<"Welcome to OVH Terminal Client!">>
    /\ statusMessage = <<>>
    /\ ready = FALSE
    /\ activePane = "menu"
    /\ width = 0 /\ height = 0
    /\ showHelp = FALSE
    /\ quit = FALSE
    /\ frame = IdleFrame
    /\ call = NoCall
    /\ workers = [w \in WorkerIds |-> FreeWorker]
    /\ lastRet = NoResult
    /\ async = [h \in Handles |-> UnusedHandle]
    /\ retry = NoRetry
    /\ account = NoAccount
    /\ proc = ProcStart

\* the event loop is waiting for the next message
LoopIdle == ~quit /\ frame.pc = "idle"

facadeVars == <<call, workers, lastRet, async, retry, account, proc>>

----------------------------------------------------------------------------
(* BaseCommand.executeWithTimeout *)

\* entry: with a timeout <= 0 the caller runs fn itself; otherwise it arms
\* the deadline, makes resultCh, starts the goroutine and waits in select
executeWithTimeout(timeout) ==
    IF timeout <= 0
    THEN /\ call' = [pc |-> "direct", w |-> 0, timeout |-> timeout, out |-> NoResult]
         /\ UNCHANGED workers
    ELSE /\ FreeSlots # {}
         /\ call' = [pc |-> "select", w |-> FirstFreeSlot, timeout |-> timeout,
                     out |-> NoResult]
         /\ workers' = [workers EXCEPT ![FirstFreeSlot] =
                            [st |-> "running", awaited |-> TRUE, ch |-> <<>>]]

\* the goroutine: fn() returns in the goroutine (an operation that never
\* returns never takes this step)
OpReturns(w) ==
    /\ ~quit
    /\ workers[w].st = "running"
    /\ workers' = [workers EXCEPT ![w].st = "sending"]
    /\ UNCHANGED <<call, lastRet, async, retry, account, proc>>
    /\ UNCHANGED uiVars

\* WorkerSend with the goroutine writing its output into the model itself
WorkerSend_SetsContent(w) ==
    /\ ~quit
    /\ workers[w].st = "sending"
    /\ Len(workers[w].ch) < ResultChCap
    /\ \E ok \in BOOLEAN :
          workers' = [workers EXCEPT ![w] =
                        IF workers[w].awaited
                        THEN [workers[w] EXCEPT !.st = "exited", !.ch = <<OpResult(ok)>>]
                        ELSE FreeWorker]
    /\ SetContent(<<"formatted output">>)
    /\ UNCHANGED <<call, lastRet, async, retry, account, proc>>
    /\ UNCHANGED <<items, cursor, listW, listH, vpW, vpH, statusMessage, ready,
                   activePane, width, height, showHelp, quit, frame>>

\* the goroutine: resultCh <- {output, err} with what fn returned, then the
\* goroutine ends. A goroutine whose caller is gone leaves its value in the
\* buffer of a channel nobody reads; its slot is reclaimed
\* WorkerSend on a result channel without buffer: the send needs the caller
\* to be receiving in its select
WorkerSend_Unbuffered(w) ==
    /\ ~quit
    /\ workers[w].st = "sending"
    /\ workers[w].awaited /\ call.pc = "select" /\ call.w = w
    /\ \E ok \in BOOLEAN :
          workers' = [workers EXCEPT ![w] =
                        [workers[w] EXCEPT !.st = "exited", !.ch = <<OpResult(ok)>>]]
    /\ UNCHANGED <<call, lastRet, async, retry, account, proc>>
    /\ UNCHANGED uiVars

WorkerSend(w) ==
    /\ ~quit
    /\ workers[w].st = "sending"
    /\ Len(workers[w].ch) < ResultChCap
    /\ \E ok \in BOOLEAN :
          workers' = [workers EXCEPT ![w] =
                        IF workers[w].awaited
                        THEN [workers[w] EXCEPT !.st = "exited", !.ch = <<OpResult(ok)>>]
                        ELSE FreeWorker]
    /\ UNCHANGED <<call, lastRet, async, retry, account, proc>>
    /\ UNCHANGED uiVars

\* select, case result := <-resultCh
SelectResult ==
    /\ ~quit
    /\ call.pc = "select"
    /\ workers[call.w].ch # <<>>
    /\ call' = [call EXCEPT !.pc = "done", !.out = Head(workers[call.w].ch)]
    /\ workers' = [workers EXCEPT ![call.w] = FreeWorker]
    /\ UNCHANGED <<lastRet, async, retry, account, proc>>
    /\ UNCHANGED uiVars

\* SelectTimeout returning the zero result (no error) when the deadline elapsed
SelectTimeout_NoError ==
    /\ ~quit
    /\ call.pc = "select"
    /\ call.timeout > 0
    /\ call' = [call EXCEPT !.pc = "done", !.out = NoResult]
    /\ workers' = [workers EXCEPT ![call.w] =
                     IF workers[call.w].st = "exited"
                     THEN FreeWorker
                     ELSE [workers[call.w] EXCEPT !.awaited = FALSE]]
    /\ UNCHANGED <<lastRet, async, retry, account, proc>>
    /\ UNCHANGED uiVars

\* SelectTimeout returning while the goroutine is still counted as awaited
SelectTimeout_StillAwaited ==
    /\ ~quit
    /\ call.pc = "select"
    /\ call.timeout > 0
    /\ call' = [call EXCEPT !.pc = "done", !.out = TimeoutResult]
    /\ workers' = [workers EXCEPT ![call.w] =
                     IF workers[call.w].st = "exited"
                     THEN FreeWorker
                     ELSE workers[call.w]]
    /\ UNCHANGED <<lastRet, async, retry, account, proc>>
    /\ UNCHANGED uiVars

\* select, case <-ctx.Done(): the deadline elapsed; the goroutine is left
\* running and nobody will read its channel
SelectTimeout ==
    /\ ~quit
    /\ call.pc = "select"
    /\ call.timeout > 0
    /\ call' = [call EXCEPT !.pc = "done", !.out = TimeoutResult]
    /\ workers' = [workers EXCEPT ![call.w] =
                     IF workers[call.w].st = "exited"
                     THEN FreeWorker
                     ELSE [workers[call.w] EXCEPT !.awaited = FALSE]]
    /\ UNCHANGED <<lastRet, async, retry, account, proc>>
    /\ UNCHANGED uiVars

\* timeout <= 0: "return fn()" returns when fn does
DirectReturns ==
    /\ ~quit
    /\ call.pc = "direct"
    /\ \E ok \in BOOLEAN : call' = [call EXCEPT !.pc = "done", !.out = OpResult(ok)]
    /\ UNCHANGED <<workers, lastRet, async, retry, account, proc>>
    /\ UNCHANGED uiVars

----------------------------------------------------------------------------
(* Callers of the facade outside the menu: ExecuteWithOptions, ExecuteAsync *)

\* MeCommand.ExecuteWithOptions(WithTimeout(t)) on a fresh command
ExecuteWithOptions(t) ==
    /\ call.pc = "none"
    /\ executeWithTimeout(t)
    /\ UNCHANGED <<lastRet, async, retry, account, proc>>
    /\ UNCHANGED uiVars

\* ExecuteWithOptions returns (output, err) to its caller
ExecuteReturns ==
    /\ call.pc = "done"
    /\ frame.pc = "idle"
    /\ lastRet' = call.out
    /\ call' = NoCall
    /\ UNCHANGED <<workers, async, retry, account, proc>>
    /\ UNCHANGED uiVars

\* MeCommand.ExecuteAsync(ctx): makes resultCh, starts the goroutine and
\* returns the channel; ctx is not used
ExecuteAsync(h) ==
    /\ async[h].st = "unused"
    /\ \A g \in Handles : g < h => async[g].st # "unused"
    /\ async' = [async EXCEPT ![h].st = "running"]
    /\ UNCHANGED <<call, workers, lastRet, retry, account, proc>>
    /\ UNCHANGED uiVars

\* the goroutine: executeCommand returns (an operation that never returns
\* never takes this step)
AsyncOpReturns(h) ==
    /\ async[h].st = "running"
    /\ async' = [async EXCEPT ![h].st = "sending"]
    /\ UNCHANGED <<call, workers, lastRet, retry, account, proc>>
    /\ UNCHANGED uiVars

\* the goroutine: resultCh <- CommandResult{...}; State is StateFailed exactly
\* when err != nil
AsyncSend(h) ==
    /\ async[h].st = "sending"
    /\ Len(async[h].ch) < ResultChCap
    /\ \E ok \in BOOLEAN :
          async' = [async EXCEPT ![h].st = "sent",
                                 ![h].ch = Append(async[h].ch, OpResult(ok)),
                                 ![h].sends = async[h].sends + 1]
    /\ UNCHANGED <<call, workers, lastRet, retry, account, proc>>
    /\ UNCHANGED uiVars

\* AsyncClose with close(resultCh) not deferred: it may run before the send
AsyncClose_Early(h) ==
    /\ async[h].st \in {"running", "sending", "sent"}
    /\ ~async[h].closed
    /\ async' = [async EXCEPT ![h].closed = TRUE,
                              ![h].st = IF async[h].st = "sent" THEN "finished" ELSE @]
    /\ UNCHANGED <<call, workers, lastRet, retry, account, proc>>
    /\ UNCHANGED uiVars

\* the goroutine: the deferred close(resultCh)
AsyncClose(h) ==
    /\ async[h].st = "sent"
    /\ async' = [async EXCEPT ![h].st = "finished", ![h].closed = TRUE]
    /\ UNCHANGED <<call, workers, lastRet, retry, account, proc>>
    /\ UNCHANGED uiVars

\* the consumer of the handle receives the buffered result
AsyncReceive(h) ==
    /\ async[h].ch # <<>>
    /\ async' = [async EXCEPT ![h].ch = Tail(async[h].ch),
                              ![h].recvd = Append(async[h].recvd, Head(async[h].ch))]
    /\ UNCHANGED <<call, workers, lastRet, retry, account, proc>>
    /\ UNCHANGED uiVars

\* the caller cancels the context it passed to ExecuteAsync
CtxCancel(h) ==
    /\ async[h].st # "unused"
    /\ ~async[h].ctxDone
    /\ async' = [async EXCEPT ![h].ctxDone = TRUE]
    /\ UNCHANGED <<call, workers, lastRet, retry, account, proc>>
    /\ UNCHANGED uiVars

----------------------------------------------------------------------------
(* Event loop: Model.Update, HandleWindowSizeMsg, HandleKeyMsg *)

\* Resize applying the layout whatever the size
Resize_AlwaysLaidOut(sz) ==
    /\ LoopIdle
    /\ width' = sz[1]
    /\ height' = sz[2]
    /\ ready' = (sz[1] >= 80 /\ sz[2] >= 20)
    /\ statusMessage' = IF ~ValidateWindowSize(sz[1], sz[2])
                        THEN <<"Window too small - please resize">>
                        ELSE statusMessage
    /\ LayoutUpdate(TRUE, sz[1], sz[2])
    /\ UNCHANGED <<items, cursor, vpContent, vpYOffset, content, activePane,
                   showHelp, quit, frame>>
    /\ UNCHANGED facadeVars

\* Resize with a model that stays ready once it has been
Resize_StaysReady(sz) ==
    /\ LoopIdle
    /\ width' = sz[1]
    /\ height' = sz[2]
    /\ ready' = (ready \/ (sz[1] >= 80 /\ sz[2] >= 20))
    /\ IF ~ValidateWindowSize(sz[1], sz[2])
       THEN /\ statusMessage' = <<"Window too small - please resize">>
            /\ UNCHANGED <<listW, listH, vpW, vpH>>
       ELSE /\ LayoutUpdate(ready', sz[1], sz[2])
            /\ UNCHANGED statusMessage
    /\ UNCHANGED <<items, cursor, vpContent, vpYOffset, content, activePane,
                   showHelp, quit, frame>>
    /\ UNCHANGED facadeVars

\* tea.WindowSizeMsg: HandleWindowSizeMsg
Resize(sz) ==
    /\ LoopIdle
    /\ width' = sz[1]
    /\ height' = sz[2]
    /\ ready' = (sz[1] >= 80 /\ sz[2] >= 20)
    /\ IF ~ValidateWindowSize(sz[1], sz[2])
       THEN /\ statusMessage' = <<"Window too small - please resize">>
            /\ UNCHANGED <<listW, listH, vpW, vpH>>
       ELSE /\ LayoutUpdate(ready', sz[1], sz[2])
            /\ UNCHANGED statusMessage
    /\ UNCHANGED <<items, cursor, vpContent, vpYOffset, content, activePane,
                   showHelp, quit, frame>>
    /\ UNCHANGED facadeVars

\* HandleKeyMsg while the model is not ready: no handler runs; Model.Update
\* still passes the key to the active component
KeyNotReady(k) ==
    /\ LoopIdle
    /\ ~ready
    /\ cursor' = UpdateActiveComponent(k, activePane, cursor, Len(items))
    /\ vpYOffset' = UpdateActiveViewport(k, activePane, vpYOffset, vpContent, vpH)
    /\ UNCHANGED <<items, listW, listH, vpW, vpH, vpContent, content, statusMessage,
                   ready, activePane, width, height, showHelp, quit, frame>>
    /\ UNCHANGED facadeVars

\* a key without an entry in KeyMap (arrows included): only the active
\* component sees it
KeyUnmapped(k) ==
    /\ LoopIdle
    /\ ready
    /\ k \in {"up", "down", "x"}
    /\ cursor' = UpdateActiveComponent(k, activePane, cursor, Len(items))
    /\ vpYOffset' = UpdateActiveViewport(k, activePane, vpYOffset, vpContent, vpH)
    /\ UNCHANGED <<items, listW, listH, vpW, vpH, vpContent, content, statusMessage,
                   ready, activePane, width, height, showHelp, quit, frame>>
    /\ UNCHANGED facadeVars

\* handleQuit: "q" and "ctrl+c" return tea.Quit
handleQuit(k) ==
    /\ LoopIdle
    /\ ready
    /\ k \in {"q", "ctrl+c"}
    /\ quit' = TRUE
    /\ UNCHANGED <<items, cursor, listW, listH, vpW, vpH, vpContent, vpYOffset, content,
                   statusMessage, ready, activePane, width, height, showHelp, frame>>
    /\ UNCHANGED facadeVars

\* handleHelp: Model.ToggleHelp
handleHelp ==
    /\ LoopIdle
    /\ ready
    /\ showHelp' = ~showHelp
    /\ statusMessage' = IF showHelp' THEN <<"Showing help (press F1 to close)">>
                                     ELSE <<"Help closed">>
    /\ UNCHANGED <<items, cursor, listW, listH, vpW, vpH, vpContent, vpYOffset, content,
                   ready, activePane, width, height, quit, frame>>
    /\ UNCHANGED facadeVars

\* handlePaneToggle
handlePaneToggle ==
    /\ LoopIdle
    /\ ready
    /\ activePane' = ToggleActivePane(activePane)
    /\ UNCHANGED <<items, cursor, listW, listH, vpW, vpH, vpContent, vpYOffset, content,
                   statusMessage, ready, width, height, showHelp, quit, frame>>
    /\ UNCHANGED facadeVars

\* handleTopNav / handleBottomNav: "g" and "G"
handleTopBottomNav(k) ==
    /\ LoopIdle
    /\ ready
    /\ k \in {"g", "G"}
    /\ IF activePane = "content"
       THEN /\ statusMessage' = IF k = "g" THEN <<"Navigated to top of content">>
                                           ELSE <<"Navigated to bottom of content">>
            /\ vpYOffset' = UpdateActiveViewport(k, activePane,
                                IF k = "g" THEN 0 ELSE MaxYOffset(vpContent, vpH),
                                vpContent, vpH)
            /\ UNCHANGED cursor
       ELSE /\ cursor' = UpdateActiveComponent(k, activePane,
                             ListUpdate(k, cursor, Len(items)), Len(items))
            /\ UNCHANGED <<statusMessage, vpYOffset>>
    /\ UNCHANGED <<items, listW, listH, vpW, vpH, vpContent, content,
                   ready, activePane, width, height, showHelp, quit, frame>>
    /\ UNCHANGED facadeVars

\* handleEnter reaches HandleCommand: ready, menu pane, an item is selected
EnterOnItem ==
    /\ LoopIdle
    /\ ready
    /\ activePane = "menu"
    /\ cursor \in 1..Len(items)

\* handleEnter with the content pane active, or with nothing selected
EnterIgnored ==
    /\ LoopIdle
    /\ ready
    /\ activePane # "menu" \/ cursor \notin 1..Len(items)
    /\ UNCHANGED uiVars
    /\ UNCHANGED facadeVars

\* HandleCommand for a TypeNormal item ("Exit" included): nothing but the
\* layout update of handleEnter
EnterNormal ==
    /\ EnterOnItem
    /\ items[cursor].itemType = "Normal"
    /\ LayoutUpdate(ready, width, height)
    /\ UNCHANGED <<items, cursor, vpContent, vpYOffset, content, statusMessage, ready,
                   activePane, width, height, showHelp, quit, frame>>
    /\ UNCHANGED facadeVars

\* CollapseOthers leaving the other headers as they are
CollapseOthers_Independent(its, currentIndex) == its

\* "If we're expanding this header, collapse others": every other expanded
\* top-level header of the snapshot is toggled
CollapseOthers(its, currentIndex) ==
    [i \in 1..Len(its) |->
        IF /\ i # currentIndex
           /\ its[i].itemType = "Header"
           /\ its[i].indent = 0
           /\ its[i].expanded
        THEN ToggleItemExpanded(its, i)[i]
        ELSE its[i]]

\* the part of a header handler from model.UpdateMenuItems() on, followed by
\* the layout update of handleEnter
FinishHeader(cur, title, msg, dsRes, vpsRes) ==
    LET updated == UpdateMenuItems(cur, dsRes, vpsRes) IN
    /\ items' = updated
    /\ cursor' = SelectByTitle(updated, title, SelectAfterSetItems(cursor, updated))
    /\ statusMessage' = msg
    /\ LayoutUpdate(ready, width, height)
    /\ frame' = IdleFrame
    /\ UNCHANGED <<vpContent, vpYOffset, content, ready, activePane, width, height,
                   showHelp, quit>>
    /\ UNCHANGED facadeVars

\* a header handler up to model.UpdateMenuItems(): when the rebuild calls the
\* remote API the loop is suspended in that call, otherwise the handler
\* completes
RebuildOrSuspend(toggled, title, msg) ==
    IF FetchesServers(toggled) \/ FetchesVps(toggled)
    THEN /\ items' = toggled
         /\ frame' = [pc |-> "rebuild", title |-> title, msg |-> msg]
         /\ UNCHANGED <<cursor, listW, listH, vpW, vpH, vpContent, vpYOffset, content,
                        statusMessage, ready, activePane, width, height, showHelp, quit>>
         /\ UNCHANGED facadeVars
    ELSE FinishHeader(toggled, title, msg, NoFetch, NoFetch)

\* handleTopLevelHeader
handleTopLevelHeader ==
    /\ EnterOnItem
    /\ items[cursor].itemType = "Header"
    /\ items[cursor].indent = 0
    /\ LET toggled == ToggleItemExpanded(items, cursor)
           clickedExpanded == toggled[cursor].expanded
           others == IF clickedExpanded THEN CollapseOthers(toggled, cursor) ELSE toggled
       IN  RebuildOrSuspend(others, items[cursor].text,
               <<"Menu", items[cursor].text,
                 IF clickedExpanded THEN "expanded" ELSE "collapsed">>)

\* handleNestedHeader
handleNestedHeader ==
    /\ EnterOnItem
    /\ items[cursor].itemType = "Header"
    /\ items[cursor].indent # 0
    /\ RebuildOrSuspend(ToggleItemExpanded(items, cursor), items[cursor].text,
           <<"Section", items[cursor].text,
             IF ~items[cursor].expanded THEN "expanded" ELSE "collapsed">>)

\* the remote calls of UpdateMenuItems return and the handler completes (a
\* remote call that never returns never takes this step)
RebuildReturns ==
    /\ ~quit
    /\ frame.pc = "rebuild"
    /\ \E dsRes \in (IF FetchesServers(items) THEN ServerFetches ELSE {NoFetch}),
          vpsRes \in (IF FetchesVps(items) THEN VpsFetches ELSE {NoFetch}) :
          FinishHeader(items, frame.title, frame.msg, dsRes, vpsRes)

\* EnterUnboundLeaf also writing the selection into the content pane
EnterUnboundLeaf_SetsContent ==
    /\ EnterOnItem
    /\ items[cursor].itemType \in {"TreeItem", "TreeLastItem"}
    /\ items[cursor].text \notin commandRegistry
    /\ statusMessage' = <<"Selected:", items[cursor].text>>
    /\ SetContent(<<"Selected:", items[cursor].text>>)
    /\ LayoutUpdate(ready, width, height)
    /\ UNCHANGED <<items, cursor, ready, activePane,
                   width, height, showHelp, quit, frame>>
    /\ UNCHANGED facadeVars

\* handleTreeCommand, title without a registry entry
EnterUnboundLeaf ==
    /\ EnterOnItem
    /\ items[cursor].itemType \in {"TreeItem", "TreeLastItem"}
    /\ items[cursor].text \notin commandRegistry
    /\ statusMessage' = <<"Selected:", items[cursor].text>>
    /\ LayoutUpdate(ready, width, height)
    /\ UNCHANGED <<items, cursor, vpContent, vpYOffset, content, ready, activePane,
                   width, height, showHelp, quit, frame>>
    /\ UNCHANGED facadeVars

\* handleTreeCommand, bound title: cmd.Execute() enters executeWithTimeout
\* with the default configuration and the loop waits there
EnterBoundLeaf ==
    /\ EnterOnItem
    /\ items[cursor].itemType \in {"TreeItem", "TreeLastItem"}
    /\ items[cursor].text \in commandRegistry
    /\ call.pc = "none"
    /\ executeWithTimeout(DefaultTimeout)
    /\ frame' = [pc |-> "execute", title |-> items[cursor].text, msg |-> <<>>]
    /\ UNCHANGED <<items, cursor, listW, listH, vpW, vpH, vpContent, vpYOffset, content,
                   statusMessage, ready, activePane, width, height, showHelp, quit>>
    /\ UNCHANGED <<lastRet, async, retry, account, proc>>

\* TreeCommandReturns with a failed command ending the program
TreeCommandReturns_QuitsOnError ==
    /\ ~quit
    /\ frame.pc = "execute"
    /\ call.pc = "done"
    /\ call' = NoCall
    /\ frame' = IdleFrame
    /\ IF call.out.err # ""
       THEN /\ statusMessage' = <<"Error:", call.out.err>>
            /\ SetContent(<<"Failed to execute command:", call.out.err>>)
            /\ quit' = TRUE
            /\ UNCHANGED <<activePane, listW, listH, vpW, vpH>>
       ELSE /\ statusMessage' = <<"Executed:", frame.title>>
            /\ SetContent(call.out.output)
            /\ activePane' = ToggleActivePane(activePane)
            /\ LayoutUpdate(ready, width, height)
            /\ UNCHANGED quit
    /\ UNCHANGED <<items, cursor, ready, width, height, showHelp>>
    /\ UNCHANGED <<workers, lastRet, async, retry, account, proc>>

\* handleTreeCommand after cmd.Execute() returned
TreeCommandReturns ==
    /\ ~quit
    /\ frame.pc = "execute"
    /\ call.pc = "done"
    /\ call' = NoCall
    /\ frame' = IdleFrame
    /\ IF call.out.err # ""
       THEN /\ statusMessage' = <<"Error:", call.out.err>>
            /\ SetContent(<<"Failed to execute command:", call.out.err>>)
            /\ UNCHANGED <<activePane, listW, listH, vpW, vpH>>
       ELSE /\ statusMessage' = <<"Executed:", frame.title>>
            /\ SetContent(call.out.output)
            /\ activePane' = ToggleActivePane(activePane)
            /\ LayoutUpdate(ready, width, height)
    /\ UNCHANGED <<items, cursor, ready, width, height, showHelp, quit>>
    /\ UNCHANGED <<workers, lastRet, async, retry, account, proc>>

----------------------------------------------------------------------------
(* Specifications *)

\* the terminal UI: the event loop with the goroutines it starts
Next ==
    \/ \E sz \in WindowSizes : Resize(sz)
    \/ \E k \in Keys : KeyNotReady(k)
    \/ \E k \in Keys : KeyUnmapped(k)
    \/ \E k \in Keys : handleQuit(k)
    \/ handleHelp
    \/ handlePaneToggle
    \/ \E k \in Keys : handleTopBottomNav(k)
    \/ EnterIgnored
    \/ EnterNormal
    \/ handleTopLevelHeader
    \/ handleNestedHeader
    \/ RebuildReturns
    \/ EnterUnboundLeaf
    \/ EnterBoundLeaf
    \/ TreeCommandReturns
    \/ \E w \in WorkerIds : OpReturns(w)
    \/ \E w \in WorkerIds : WorkerSend(w)
    \/ SelectResult
    \/ SelectTimeout

Spec == Init /\ [][Next]_vars

\* a caller of the synchronous facade: ExecuteWithOptions with any timeout
SyncNext ==
    \/ \E t \in TimeoutChoices : ExecuteWithOptions(t)
    \/ ExecuteReturns
    \/ \E w \in WorkerIds : OpReturns(w)
    \/ \E w \in WorkerIds : WorkerSend(w)
    \/ SelectResult
    \/ SelectTimeout
    \/ DirectReturns

SyncSpec == Init /\ [][SyncNext]_vars

\* time passes and goroutines run: a pending select sees its deadline or its
\* result and a send that can complete does. Nothing makes the bound
\* operation return
SyncFairness ==
    /\ WF_vars(SelectTimeout)
    /\ WF_vars(SelectResult)
    /\ WF_vars(ExecuteReturns)
    /\ \A w \in WorkerIds : WF_vars(WorkerSend(w))

FairSyncSpec == SyncSpec /\ SyncFairness

\* callers of the asynchronous facade: ExecuteAsync and the handles it returns
AsyncNext ==
    \/ \E h \in Handles : ExecuteAsync(h)
    \/ \E h \in Handles : AsyncOpReturns(h)
    \/ \E h \in Handles : AsyncSend(h)
    \/ \E h \in Handles : AsyncClose(h)
    \/ \E h \in Handles : AsyncReceive(h)
    \/ \E h \in Handles : CtxCancel(h)

AsyncSpec == Init /\ [][AsyncNext]_vars

\* goroutines run: a send that can complete does, and so does the deferred
\* close. Nothing makes the bound operation return
AsyncFairness ==
    \A h \in Handles : WF_vars(AsyncSend(h)) /\ WF_vars(AsyncClose(h))

FairAsyncSpec == AsyncSpec /\ AsyncFairness

----------------------------------------------------------------------------
(* The retry loops and the account request *)

otherThanRetry == <<uiVars, call, workers, lastRet, async, account, proc>>

\* entry of Client.executeWithRetry with MaxRetries = n: the loop condition
\* attempt < MaxRetries is evaluated for attempt = 0; when it fails the loop
\* body never runs and handleAPIError(nil) is returned
ClientRequest(method, n) ==
    IF 0 < n
    THEN [NoRetry EXCEPT !.pc = "loop", !.kind = method, !.n = n]
    ELSE [NoRetry EXCEPT !.pc = "done", !.kind = method, !.n = n,
                         !.ret = handleAPIError(NilErr)]

\* Client.Get of the retrying client
ClientGet(n) ==
    /\ retry.pc \in {"idle", "done"}
    /\ retry' = ClientRequest("GET", n)
    /\ UNCHANGED otherThanRetry

\* Client.Post of the retrying client
ClientPost(n) ==
    /\ retry.pc \in {"idle", "done"}
    /\ retry' = ClientRequest("POST", n)
    /\ UNCHANGED otherThanRetry

\* one iteration of the loop of Client.executeWithRetry: fn returns e
ClientAttempt(e) ==
    /\ retry.pc = "loop"
    /\ retry.kind \in {"GET", "POST"}
    /\ retry' =
         IF e = NilErr
         THEN [retry EXCEPT !.pc = "done", !.errs = Append(@, e), !.ret = NilErr]
         ELSE IF ~shouldRetry(retry.n, e, retry.attempt) \/ ~(retry.attempt + 1 < retry.n)
              THEN [retry EXCEPT !.pc = "done", !.errs = Append(@, e), !.lastErr = e,
                                 !.ret = handleAPIError(e)]
              ELSE [retry EXCEPT !.errs = Append(@, e), !.lastErr = e,
                                 !.attempt = @ + 1]
    /\ UNCHANGED otherThanRetry

\* the loop of BaseCommand.executeWithRetry goes on after a failed attempt
\* number attempt (from 0) with RetryCount = n
CommandLoopContinues(n, attempt) == attempt + 1 <= n

\* entry of BaseCommand.executeWithRetry of a command of type t with
\* RetryCount = n
CommandExecuteWithRetry(t, n) ==
    /\ retry.pc \in {"idle", "done"}
    /\ retry' = [NoRetry EXCEPT !.pc = "loop", !.kind = "command", !.cmdType = t, !.n = n]
    /\ UNCHANGED otherThanRetry

\* one iteration of the loop of BaseCommand.executeWithRetry: the delay has
\* elapsed (attempt > 0) and fn returns e
CommandAttempt(e) ==
    /\ retry.pc = "loop"
    /\ retry.kind = "command"
    /\ retry' =
         IF e = NilErr
         THEN [retry EXCEPT !.pc = "done", !.errs = Append(@, e), !.out = "output",
                            !.ret = NilErr]
         ELSE IF CommandLoopContinues(retry.n, retry.attempt)
              THEN [retry EXCEPT !.errs = Append(@, e), !.lastErr = e, !.attempt = @ + 1]
              ELSE [retry EXCEPT !.pc = "done", !.errs = Append(@, e), !.lastErr = e,
                                 !.ret = e]
    /\ UNCHANGED otherThanRetry

\* the select before a repeated attempt takes <-ctx.Done()
CommandCanceled ==
    /\ retry.pc = "loop"
    /\ retry.kind = "command"
    /\ retry.attempt > 0
    /\ retry.ctxDone
    /\ retry' = [retry EXCEPT !.pc = "done", !.ret = CtxErr]
    /\ UNCHANGED otherThanRetry

\* the caller cancels the context of a running command
RetryCtxCancel ==
    /\ retry.pc = "loop"
    /\ retry.kind = "command"
    /\ ~retry.ctxDone
    /\ retry' = [retry EXCEPT !.ctxDone = TRUE]
    /\ UNCHANGED otherThanRetry

\* Client.Get of internal/api/client.go: one request, its error e wrapped
Get(e) ==
    IF e # NilErr
    THEN IF e.layer = "ovh.APIError"
         THEN IF e.code \in {401, 403}
              THEN NewAuthError("Authentication failed", e)
              ELSE NewAPIError("API request failed", e, e.code)
         ELSE NewAPIError("Request failed", e, 0)
    ELSE NilErr

\* GetAccountInfo that wraps the error of c.Get the way ListDedicatedServers does
AccountResult_Wrapped(err, a) ==
    IF err # NilErr
    THEN [info |-> <<>>,
          err |-> [layer |-> "error", code |-> 0, type |-> "",
                   msg |-> "failed to get account info", cause |-> <<err>>]]
    ELSE [info |-> <<a>>, err |-> NilErr]

\* what GetAccountInfo returns when c.Get returned err and the remote data
\* decoded into info is a: (nil, err) or (&info, nil)
AccountResult(err, a) ==
    IF err # NilErr THEN [info |-> <<>>, err |-> err]
                    ELSE [info |-> <<a>>, err |-> NilErr]

\* Client.GetAccountInfo: the remote GET /me returns e and, on success, a
GetAccountInfo(e, a) ==
    /\ account' = [called |-> TRUE, remoteErr |-> e,
                   remote |-> IF e = NilErr THEN <<a>> ELSE <<>>,
                   info |-> AccountResult(Get(e), a).info,
                   err |-> AccountResult(Get(e), a).err]
    /\ UNCHANGED <<uiVars, call, workers, lastRet, async, retry, proc>>

\* callers of the API client and of the retry loops
ApiNext ==
    \/ \E n \in ClientRetryCounts : ClientGet(n)
    \/ \E n \in ClientRetryCounts : ClientPost(n)
    \/ \E e \in AttemptOutcomes : ClientAttempt(e)
    \/ \E t \in CommandTypes, n \in 0..MaxRetryCount : CommandExecuteWithRetry(t, n)
    \/ \E e \in AttemptOutcomes : CommandAttempt(e)
    \/ CommandCanceled
    \/ RetryCtxCancel
    \/ \E e \in AttemptOutcomes, a \in AccountInfos : GetAccountInfo(e, a)

ApiSpec == Init /\ [][ApiNext]_vars

TypeOK ==
    /\ cursor \in Nat
    /\ vpYOffset \in Nat
    /\ ready \in BOOLEAN
    /\ activePane \in {"menu", "content"}
    /\ frame.pc \in {"idle", "rebuild", "execute"}
    /\ call.pc \in {"none", "select", "direct", "done"}
    /\ retry.pc \in {"idle", "loop", "done"}
    /\ retry.attempt \in 0..MaxRetryCount
    /\ retry.attempt > 0 => retry.attempt <= retry.n
    /\ account.called \in BOOLEAN
    /\ proc.pc \in {"start", "setup failed", "ui", "exited"}
    /\ proc.status \in {-1, exitSuccess, exitError}

----------------------------------------------------------------------------
(* Properties *)

IsTopHeader(it) == it.itemType = "Header" /\ it.indent = 0

ExpandedTopHeaders(its) == {i \in 1..Len(its) : IsTopHeader(its[i]) /\ its[i].expanded}

\* C1: accordion exclusivity. At most one top-level header is expanded in
\* every reachable state, and an Enter on a collapsed top-level header leaves
\* that header expanded and every other top-level header collapsed.
C1_Accordion ==
    /\ [](Cardinality(ExpandedTopHeaders(items)) <= 1)
    /\ [][(EnterOnItem /\ IsTopHeader(items[cursor]) /\ ~items[cursor].expanded
           /\ items' # items)
          => /\ frame'.pc = "idle"
             /\ \A i \in 1..Len(items') :
                   IsTopHeader(items'[i]) =>
                       (items'[i].expanded <=> items'[i].text = items[cursor].text)]_vars

\* C1 witness: "Web Cloud" has just been expanded by an activation and it is
\* the only expanded top-level header
C1_Witness ==
    /\ statusMessage = <<"Menu", "Web Cloud", "expanded">>
    /\ \E i \in ExpandedTopHeaders(items) : items[i].text = "Web Cloud"

\* the headers before row i that have a smaller indent than row i
HeadersAbove(its, i) ==
    {j \in 1..(i - 1) : its[j].itemType = "Header" /\ its[j].indent < its[i].indent}

NearestHeaderAbove(its, i) ==
    CHOOSE j \in HeadersAbove(its, i) : \A k \in HeadersAbove(its, i) : k <= j

ValidPreorder(its) ==
    /\ \A i \in 1..Len(its) :
          its[i].indent > 0 =>
              /\ HeadersAbove(its, i) # {}
              /\ its[NearestHeaderAbove(its, i)].indent = its[i].indent - 1
              /\ its[NearestHeaderAbove(its, i)].expanded
    /\ \A i \in 1..Len(its) :
          (IsTopHeader(its[i]) /\ its[i].expanded) =>
              (i < Len(its) /\ its[i + 1].indent = 1)
    /\ \A i \in 1..Len(its) :
          (its[i].itemType = "Header" /\ ~its[i].expanded /\ i < Len(its)) =>
              its[i + 1].indent <= its[i].indent

\* C2: whenever no rebuild is pending, the flattened list is a valid pre-order
\* traversal: every row with indent > 0 has indent one greater than its
\* nearest preceding header of smaller indent, which is expanded; the children
\* of an expanded top-level header follow it immediately; a collapsed header
\* is never immediately followed by a row of greater indent.
C2_ValidPreorder == frame.pc # "rebuild" => ValidPreorder(items)

\* C2 witness: both nested sections are expanded with fetched rows in place
C2_Witness ==
    /\ frame.pc = "idle"
    /\ \E i, j \in 1..Len(items) :
          /\ i + 2 < j /\ j < Len(items)
          /\ items[i].text = "Dedicated Servers" /\ items[i].expanded
          /\ items[i + 1].indent = 2 /\ items[i + 2].indent = 2
          /\ items[j].text = "Virtual Private Servers" /\ items[j].expanded
          /\ items[j + 1].indent = 2

\* C3: a quit key ends the loop from any state: whenever the loop waits for
\* the next message, handling "q" or "ctrl+c" yields the quit command.
C3_QuitFromAnyState ==
    LoopIdle => \A k \in {"q", "ctrl+c"} : ENABLED handleQuit(k)

\* the goroutine of the current call has not delivered anything
CallWorkerPending == call.w \in WorkerIds /\ workers[call.w].st \in {"running", "sending"}

\* C4: with a positive timeout, an execute whose operation has not returned
\* returns the empty output with the timeout error, and an execute waiting in
\* its select does return.
C4_Timeout ==
    /\ []((call.pc = "done" /\ call.timeout > 0 /\ CallWorkerPending)
          => call.out = TimeoutResult)
    /\ ((call.pc = "select" /\ call.timeout > 0) ~> (call.pc = "done"))

\* C4 witness: the call returned the timeout failure while its operation is
\* still running
C4_Witness ==
    /\ call.pc = "done" /\ call.timeout > 0
    /\ workers[call.w].st = "running"
    /\ call.out = TimeoutResult

\* C5: a step of a goroutine (one that changes the goroutines and is not a
\* step of executeWithTimeout's caller) changes no UI state, no menu item and
\* no returned result; in particular the late completion of an operation
\* whose execute timed out.
C5_WorkerNeverMutatesUI ==
    [][(workers' # workers /\ call' = call)
       => UNCHANGED <<uiVars, lastRet>>]_vars

\* C5 witness: the content shows the timeout failure and the abandoned
\* operation has returned since
C5_Witness ==
    /\ content = <<"Failed to execute command:", "command execution timed out">>
    /\ frame.pc = "idle"
    /\ \E w \in WorkerIds : workers[w].st = "sending" /\ ~workers[w].awaited

\* C6: per handle at most one result is ever sent, the channel never holds
\* more than one, it is closed only after that send, and a finished goroutine
\* has sent exactly one result and closed the channel.
C6_OneResultThenClose ==
    \A h \in Handles :
        /\ async[h].sends <= 1
        /\ Len(async[h].ch) <= ResultChCap
        /\ Len(async[h].ch) + Len(async[h].recvd) = async[h].sends
        /\ async[h].closed => async[h].sends = 1
        /\ async[h].st = "finished" => (async[h].closed /\ async[h].sends = 1)

\* C6 witness: a handle delivered its result to the consumer and is closed
C6_Witness ==
    \E h \in Handles : async[h].closed /\ Len(async[h].recvd) = 1

\* the handle has delivered (sent) a result with an error, i.e. StateFailed
FailedDelivered(h) ==
    \/ \E i \in 1..Len(async[h].ch) : async[h].ch[i].err # ""
    \/ \E i \in 1..Len(async[h].recvd) : async[h].recvd[i].err # ""

\* C7: an asynchronous execution whose context is cancelled while it runs
\* (or whose operation never returns) still delivers a Failed result and is
\* closed.
C7_AsyncBounded ==
    \A h \in Handles :
        (async[h].st = "running" /\ async[h].ctxDone)
            ~> (async[h].closed /\ FailedDelivered(h))

\* C8: whatever timeout the options configure, a synchronous execute that is
\* waiting for its operation returns.
C8_HardCeiling ==
    (call.pc \in {"select", "direct"}) ~> (call.pc = "done")

\* C9: the event loop is suspended only while waiting for the next message
\* or inside a synchronous execute with an armed deadline.
C9_LoopSuspensionBounded ==
    /\ frame.pc \in {"idle", "execute"}
    /\ frame.pc = "execute" => call.timeout > 0

\* operations started by the facade that are executing
Executing == {w \in WorkerIds : workers[w].st = "running"}
\* goroutines whose result a caller is still waiting for
Awaited == {w \in WorkerIds : workers[w].st # "free" /\ workers[w].awaited}

\* C10 as stated: no two operations started by the facade execute at the
\* same time.
C10_AtMostOneInFlight == Cardinality(Executing) <= 1

\* C10 amended: at most one operation is awaited at any time, it is the one
\* of the execute the loop is suspended in, and the loop starts no other
\* operation before that execute returned.
C10_AtMostOneAwaited ==
    /\ Cardinality(Awaited) <= 1
    /\ \A w \in Awaited : frame.pc = "execute" /\ call.pc = "select" /\ call.w = w

\* C10 witness: an operation abandoned by a timed-out execute is still
\* executing while the operation of a later activation is awaited
C10_Witness ==
    \E v, w \in WorkerIds :
        /\ v # w
        /\ workers[v].st = "running" /\ ~workers[v].awaited
        /\ workers[w].st = "running" /\ workers[w].awaited

\* C11: when handleTreeCommand finishes for a bound leaf, whatever the command
\* returned (output, error, timeout), the result is written into content and
\* statusMessage and the content pane is the active one.
C11_BoundLeafShowsResult ==
    [][(frame.pc = "execute" /\ frame'.pc = "idle")
       => /\ content' = (IF call.out.err # ""
                         THEN <<"Failed to execute command:", call.out.err>>
                         ELSE call.out.output)
          /\ statusMessage' = (IF call.out.err # ""
                               THEN <<"Error:", call.out.err>>
                               ELSE <<"Executed:", frame.title>>)
          /\ activePane' = "content"]_vars

\* C12: an Enter on a leaf without a registry entry sets statusMessage to a
\* text with the title of the leaf and changes neither content, activePane,
\* showHelp nor the menu list; no command is started and the loop is not
\* suspended.
C12_UnboundLeaf ==
    [][EnterUnboundLeaf
       => /\ \E i \in 1..Len(statusMessage') : statusMessage'[i] = items[cursor].text
          /\ UNCHANGED <<content, vpContent, vpYOffset, activePane, showHelp, items, cursor>>
          /\ UNCHANGED <<call, workers, async, retry, account, proc>>
          /\ frame' = IdleFrame]_vars

\* C12 witness: the unbound leaf "Domain names" was activated and is reported
\* in the status bar
C12_Witness ==
    /\ statusMessage = <<"Selected:", "Domain names">>
    /\ frame.pc = "idle"
    /\ cursor \in 1..Len(items)
    /\ items[cursor].text = "Domain names"

----------------------------------------------------------------------------
(* The menu tree: toggles and rebuilds *)

\* the operator browsing the menu: resizes, cursor keys and Enter on headers,
\* on "Exit" and on leaves without a command
MenuNext ==
    \/ \E sz \in WindowSizes : Resize(sz)
    \/ \E k \in Keys : KeyNotReady(k)
    \/ \E k \in Keys : KeyUnmapped(k)
    \/ \E k \in Keys : handleTopBottomNav(k)
    \/ EnterNormal
    \/ handleTopLevelHeader
    \/ handleNestedHeader
    \/ RebuildReturns
    \/ EnterUnboundLeaf

MenuSpec == Init /\ [][MenuNext]_vars

\* titles of the two nested headers with a fetched listing, and the title of
\* the row shown when their fetch fails
NestedTitles == {"Dedicated Servers", "Virtual Private Servers"}

ErrTitle(title) ==
    IF title = "Dedicated Servers" THEN "Error loading servers"
    ELSE "Error loading VPS instances"

\* the rows of indent 2 that directly follow the nested header with that title
SectionRows(its, title) ==
    IF OldNested(its, title) = {} THEN <<>>
    ELSE LET h == FirstOldNested(its, title)
             n == CHOOSE n \in 0..(Len(its) - h) :
                     /\ \A i \in 1..n : its[h + i].indent = 2
                     /\ (h + n = Len(its) \/ its[h + n + 1].indent # 2)
         IN  SubSeq(its, h + 1, h + n)

\* C13: ToggleItemExpanded(index) leaves the list as it is when index is out
\* of range or the item at index is not a Header, and otherwise flips the
\* expanded flag of exactly that item.
C13_ToggleOnlyHeaders ==
    \A index \in 0..(Len(items) + 1) :
        ToggleItemExpanded(items, index) =
            (IF index \in 1..Len(items) /\ items[index].itemType = "Header"
             THEN [items EXCEPT ![index].expanded = ~items[index].expanded]
             ELSE items)

\* the list a header handler hands to UpdateMenuItems: the clicked header
\* toggled and, for a top-level header that became expanded, the others
\* collapsed
ToggledByHandler ==
    LET toggled == ToggleItemExpanded(items, cursor) IN
    IF items[cursor].indent = 0 /\ toggled[cursor].expanded
    THEN CollapseOthers(toggled, cursor)
    ELSE toggled

\* a header handler is about to call UpdateMenuItems, or is suspended in it
RebuildPending ==
    \/ frame.pc = "rebuild"
    \/ EnterOnItem /\ items[cursor].itemType = "Header"

RebuildInput == IF frame.pc = "rebuild" THEN items ELSE ToggledByHandler

\* C14: UpdateMenuItems keeps the selection by title. For the list a handler
\* rebuilds and every outcome of the fetches, when the title selected before
\* is still in the rebuilt list the item selected by UpdateMenuItems has that
\* title, and otherwise the last index is selected.
C14_SelectionByTitle ==
    (RebuildPending /\ cursor \in 1..Len(items)) =>
        \A dsRes \in (IF FetchesServers(RebuildInput) THEN ServerFetches ELSE {NoFetch}),
           vpsRes \in (IF FetchesVps(RebuildInput) THEN VpsFetches ELSE {NoFetch}) :
            LET updated == UpdateMenuItems(RebuildInput, dsRes, vpsRes)
                sel == SelectAfterSetItems(cursor, updated)
            IN  IF TitleMatches(updated, items[cursor].text) # {}
                THEN sel \in 1..Len(updated) /\ updated[sel].text = items[cursor].text
                ELSE sel = Len(updated)

\* the (display name, identifier) pairs shown under a nested header
ShownRows(its, title) ==
    {Row(SectionRows(its, title)[i].text, SectionRows(its, title)[i].desc) :
        i \in 1..Len(SectionRows(its, title))}

ShowsError(its, title) ==
    /\ Len(SectionRows(its, title)) = 1
    /\ SectionRows(its, title)[1].text = ErrTitle(title)

\* the outcomes of a fetch for which the remote data is what the section
\* shows: the same failure, or the same set of rows
SameRemoteData(its, title, fetches) ==
    {r \in fetches :
        IF r.err THEN ShowsError(its, title)
        ELSE /\ ~ShowsError(its, title)
             /\ {r.rows[i] : i \in 1..Len(r.rows)} = ShownRows(its, title)}

\* C15: a rebuild of a list that was just rebuilt, with no toggle in between
\* and the remote data unchanged, yields the identical list.
C15_RebuildIdempotent ==
    frame.pc = "idle" =>
        \A dsRes \in (IF FetchesServers(items)
                      THEN SameRemoteData(items, "Dedicated Servers", ServerFetches)
                      ELSE {NoFetch}),
           vpsRes \in (IF FetchesVps(items)
                       THEN SameRemoteData(items, "Virtual Private Servers", VpsFetches)
                       ELSE {NoFetch}) :
            UpdateMenuItems(items, dsRes, vpsRes) = items

\* the top-level items of a list
TopLevel(its) == SelectSeq(its, LAMBDA it : it.indent = 0)

\* C16: an Enter on a nested header flips the expanded flag of that header
\* only: for every outcome of its own fetch and unchanged remote data of its
\* sibling, the sibling keeps its flag and its rows, the top-level items keep
\* their flags, and only the rows of the clicked header are added or removed.
C16_NestedIndependent ==
    (EnterOnItem /\ items[cursor].itemType = "Header" /\ items[cursor].indent # 0) =>
        LET own == items[cursor].text
            toggled == ToggleItemExpanded(items, cursor)
            Fetches(title, all) ==
                IF title = own THEN all ELSE SameRemoteData(items, title, all)
        IN  \A dsRes \in (IF FetchesServers(toggled)
                          THEN Fetches("Dedicated Servers", ServerFetches)
                          ELSE {NoFetch}),
               vpsRes \in (IF FetchesVps(toggled)
                           THEN Fetches("Virtual Private Servers", VpsFetches)
                           ELSE {NoFetch}) :
                LET updated == UpdateMenuItems(toggled, dsRes, vpsRes) IN
                /\ IsNestedExpanded(updated, own) = ~items[cursor].expanded
                /\ TopLevel(updated) = TopLevel(items)
                /\ \A sib \in NestedTitles \ {own} :
                      /\ IsNestedExpanded(updated, sib) = IsNestedExpanded(items, sib)
                      /\ SectionRows(updated, sib) = SectionRows(items, sib)
                /\ Len(updated) - Len(SectionRows(updated, own))
                      = Len(items) - Len(SectionRows(items, own))

\* identifiers are compared as strings, like display names
RowBefore(x, y) ==
    \/ NameLess(x.text, y.text)
    \/ x.text = y.text /\ NameLess(x.desc, y.desc)

\* C17: the fetched rows under a nested header are in ascending order of
\* display name and, for equal display names, of identifier.
C17_SortedWithTieBreak ==
    frame.pc = "idle" =>
        \A title \in NestedTitles :
            ~ShowsError(items, title) =>
                \A i, j \in 1..Len(SectionRows(items, title)) :
                    i < j => RowBefore(SectionRows(items, title)[i],
                                       SectionRows(items, title)[j])

\* the row UpdateMenuItems shows for a failed fetch under a header at the
\* given indent; "error" stands for the text of the failure
ErrorRow(title, hdrIndent) ==
    NewListItem(ErrTitle(title), "TreeLastItem", "error", hdrIndent + 1, FALSE)

\* the list UpdateMenuItems builds when the fetch of that section fails
WithFailedFetch(its, title, dsRes, vpsRes) ==
    UpdateMenuItems(its,
        IF title = "Dedicated Servers" THEN FetchError ELSE dsRes,
        IF title = "Virtual Private Servers" THEN FetchError ELSE vpsRes)

\* C18: when the fetch of an expanded nested header fails, the rebuilt list
\* has that header, still expanded, directly followed by exactly one leaf
\* row at the header's indent + 1 that carries the failure, and no other
\* child; an error row is never shown in any other way; the handler that was
\* suspended in the rebuild completes and the loop goes on.
C18_FetchErrorRow ==
    /\ [](frame.pc = "rebuild" =>
            \A title \in {t \in NestedTitles : IsNestedExpanded(items, t)} :
                \A dsRes \in (IF FetchesServers(items) THEN ServerFetches ELSE {NoFetch}),
                   vpsRes \in (IF FetchesVps(items) THEN VpsFetches ELSE {NoFetch}) :
                    LET updated == WithFailedFetch(items, title, dsRes, vpsRes) IN
                    /\ IsNestedExpanded(updated, title)
                    /\ SectionRows(updated, title)
                          = << ErrorRow(title, updated[FirstOldNested(updated, title)].indent) >>)
    /\ [](frame.pc = "idle" =>
            \A i \in 1..Len(items) :
                (\E title \in NestedTitles : items[i].text = ErrTitle(title)) =>
                    /\ i > 1
                    /\ items[i - 1].itemType = "Header" /\ items[i - 1].expanded
                    /\ ErrTitle(items[i - 1].text) = items[i].text
                    /\ items[i] = ErrorRow(items[i - 1].text, items[i - 1].indent)
                    /\ (i = Len(items) \/ items[i + 1].indent <= items[i - 1].indent))
    /\ [][(frame.pc = "rebuild" /\ frame' # frame) => (frame' = IdleFrame /\ ~quit')]_vars

\* C18 witness: the fetch of the servers failed; the loop is idle again and
\* the expanded header shows the error row
C18_Witness ==
    /\ frame.pc = "idle" /\ ~quit
    /\ IsNestedExpanded(items, "Dedicated Servers")
    /\ ShowsError(items, "Dedicated Servers")

----------------------------------------------------------------------------
(* Window sizes and readiness *)

\* terminal sizes around the minimum of 80 x 20
LayoutSizes == {79, 80, 81} \X {19, 20, 30}

\* the operator resizing the terminal, with the keys that do not touch the
\* menu: help, pane toggle, and keys pressed while the window is too small
LayoutNext ==
    \/ \E sz \in LayoutSizes : Resize(sz)
    \/ \E k \in Keys : KeyNotReady(k)
    \/ handleHelp
    \/ handlePaneToggle

LayoutSpec == Init /\ [][LayoutNext]_vars

----------------------------------------------------------------------------
(* main: setup, the UI program, and the deferred os.Exit(exitCode) *)

otherThanProc == <<uiVars, call, workers, lastRet, async, retry, account>>

\* app, err := setupConfig(): with an error the returned app is nil. With
\* the components, main builds the program around ui.Initialize and enters
\* p.Run
MainSetup(o) ==
    /\ proc.pc = "start"
    /\ proc' = [proc EXCEPT !.pc = IF o = "ok" THEN "ui" ELSE "setup failed",
                            !.setup = o,
                            !.uiStarted = (o = "ok")]
    /\ UNCHANGED otherThanProc

\* the branch of main for err != nil when app is nil or not: both arms read
\* app.ConfigPath before exitCode = exitError is reached. With a nil app the
\* read panics and the deferred function exits the process with the exit
\* code as it is then
SetupErrorBranch(p, appIsNil) ==
    IF appIsNil
    THEN [p EXCEPT !.pc = "exited", !.panicked = TRUE, !.status = p.exitCode]
    ELSE [p EXCEPT !.pc = "exited", !.exitCode = exitError, !.status = exitError]

\* main after setupConfig returned (nil, err)
MainSetupFailed ==
    /\ proc.pc = "setup failed"
    /\ proc' = SetupErrorBranch(proc, TRUE)
    /\ UNCHANGED otherThanProc

\* the UI program is running: a window size message is handled
MainResize(sz) ==
    /\ proc.pc = "ui"
    /\ Resize(sz)

\* the UI program is running: a key is handled before the first valid size
MainKeyNotReady(k) ==
    /\ proc.pc = "ui"
    /\ KeyNotReady(k)

\* the UI program is running: tab is handled
MainPaneToggle ==
    /\ proc.pc = "ui"
    /\ handlePaneToggle

\* the UI program is running: a quit key is handled
MainQuit(k) ==
    /\ proc.pc = "ui"
    /\ handleQuit(k)

\* p.Run returns nil after tea.Quit: exitCode = exitSuccess and the deferred
\* function exits
MainRunReturns ==
    /\ proc.pc = "ui"
    /\ quit
    /\ proc' = [proc EXCEPT !.pc = "exited", !.exitCode = exitSuccess,
                            !.status = exitSuccess]
    /\ UNCHANGED otherThanProc

\* p.Run returns an error: exitCode = exitError and the deferred function
\* exits
MainRunFails ==
    /\ proc.pc = "ui"
    /\ proc' = [proc EXCEPT !.pc = "exited", !.runErr = TRUE, !.exitCode = exitError,
                            !.status = exitError]
    /\ UNCHANGED otherThanProc

\* the process from the entry of main to its exit
MainNext ==
    \/ \E o \in SetupOutcomes : MainSetup(o)
    \/ MainSetupFailed
    \/ \E sz \in LayoutSizes : MainResize(sz)
    \/ \E k \in Keys : MainKeyNotReady(k)
    \/ MainPaneToggle
    \/ \E k \in Keys : MainQuit(k)
    \/ MainRunReturns
    \/ MainRunFails

MainSpec == Init /\ [][MainNext]_vars

\* C19: initially the model is not ready and the menu pane is active; every
\* resize sets ready to the validity of the new size, so ready holds exactly
\* when the recorded size is at least 80 x 20.
C19_ReadyTracksSize ==
    /\ (~ready /\ activePane = "menu")
    /\ [](ready <=> (width >= 80 /\ height >= 20))
    /\ [][(width' # width \/ height' # height)
          => (ready' <=> ValidateWindowSize(width', height'))]_vars

\* C19 witness: the window shrank below the minimum after a valid size had
\* been laid out, and the model is not ready any more
C19_Witness ==
    /\ ~ready
    /\ listW = MenuWidth
    /\ width = 79 /\ height = 30

\* C20: ValidateWindowSize(width, height) is true exactly when width >= 80
\* and height >= 20; (79,30) is invalid, (80,20) valid, (80,19) invalid. A
\* resize acts on it: an invalid size is reported in the status bar, a valid
\* one is laid out.
C20_Validate ==
    /\ \A sz \in LayoutSizes :
          ValidateWindowSize(sz[1], sz[2]) <=> (sz[1] >= 80 /\ sz[2] >= 20)
    /\ ~ValidateWindowSize(79, 30)
    /\ ValidateWindowSize(80, 20)
    /\ ~ValidateWindowSize(80, 19)
    /\ <<width, height>> \in LayoutSizes =>
          IF width >= 80 /\ height >= 20
          THEN listH = height - StatusBarSpace - UIElementsSpace
          ELSE statusMessage = <<"Window too small - please resize">>

\* C20 witness: the terminal was resized to 80 x 19 and rejected
C20_Witness ==
    /\ width = 80 /\ height = 19
    /\ ~ready
    /\ statusMessage = <<"Window too small - please resize">>

\* C21: for every size of at least 80 x 20, calculateDimensions yields the
\* fixed menu width, content width = width - menu width - horizontal
\* allowance and content height = height - vertical allowance, both strictly
\* positive; a ready model is laid out with exactly these sizes.
C21_Dimensions ==
    /\ \A sz \in LayoutSizes :
          (sz[1] >= 80 /\ sz[2] >= 20) =>
              LET dims == calculateDimensions(sz[1], sz[2]) IN
              /\ dims.MenuWidth = 32
              /\ dims.ContentWidth = sz[1] - 32 - 9
              /\ dims.ContentHeight = sz[2] - (3 + 2)
              /\ dims.ContentWidth > 0 /\ dims.ContentHeight > 0
    /\ ready =>
          /\ listW = 32
          /\ vpW = width - 32 - 9 /\ vpW > 0
          /\ vpH = height - (3 + 2) /\ vpH > 0
          /\ listH = vpH

\* C21 witness: the minimum size 80 x 20 is laid out
C21_Witness ==
    /\ ready
    /\ width = 80 /\ height = 20
    /\ vpW = 39 /\ vpH = 15

\* C22: a resize below the minimum applies no sizes: the list and the
\* viewport keep the sizes of the last successful layout, and only ready,
\* the recorded width and height and statusMessage change. A layout update
\* whose content width or height is not positive, or that is requested while
\* the model is not ready, applies no sizes either.
C22_NoSizesApplied ==
    /\ [][(((width' # width \/ height' # height) \/ \E sz \in LayoutSizes : Resize(sz))
           /\ ~(width' >= 80 /\ height' >= 20))
          => /\ UNCHANGED <<listW, listH, vpW, vpH>>
             /\ UNCHANGED <<items, cursor, vpContent, vpYOffset, content, activePane, showHelp,
                            quit, frame, call, workers, lastRet, async, retry, account, proc>>
             /\ ~ready'
             /\ statusMessage' = <<"Window too small - please resize">>]_vars
    /\ [][\A rdy \in BOOLEAN, w \in {41, 42, 80}, h \in {5, 6, 20} :
            (LayoutUpdate(rdy, w, h)
             /\ (~rdy \/ calculateDimensions(w, h).ContentWidth <= 0
                      \/ calculateDimensions(w, h).ContentHeight <= 0))
            => UNCHANGED <<listW, listH, vpW, vpH>>]_vars

\* C22 witness: a 30-row layout is still in effect after the window shrank
\* to 80 x 19
C22_Witness ==
    /\ ~ready
    /\ width = 80 /\ height = 19
    /\ listH = 25 /\ vpH = 25

\* C23: activePane is always menu or content; a pane toggle while ready flips
\* it, so that two toggles in a row restore it; while the model is not ready
\* no step changes activePane.
C23_PaneToggle ==
    /\ [](activePane \in {"menu", "content"})
    /\ [](ToggleActivePane(activePane) # activePane
          /\ ToggleActivePane(ToggleActivePane(activePane)) = activePane)
    /\ [][handlePaneToggle
          => (ready /\ activePane' # activePane
              /\ activePane' = (IF activePane = "menu" THEN "content" ELSE "menu"))]_vars
    /\ [][~ready => activePane' = activePane]_vars

\* C23 witness: the content pane was made active by a toggle; the window has
\* shrunk since, and toggles no longer apply
C23_Witness ==
    /\ activePane = "content"
    /\ ~ready
    /\ content = <<"Welcome to OVH Terminal Client!">>

\* C24: while ready, a navigation key (up, down, "g", "G") acts on the
\* component of the active pane only: with the menu pane active the scroll
\* position and the text of the viewport are unchanged, with the content
\* pane active the menu cursor and the list are unchanged; activePane does
\* not change.
C24_NavigationActivePaneOnly ==
    [][((\E k \in {"up", "down"} : KeyUnmapped(k))
        \/ (\E k \in {"g", "G"} : handleTopBottomNav(k)))
       => /\ activePane' = activePane
          /\ activePane = "menu" => UNCHANGED <<vpYOffset, vpContent>>
          /\ activePane = "content" => UNCHANGED <<cursor, items>>]_vars

\* C24 witness: the content pane is active and its text is scrolled down by
\* a line, with the menu cursor on the leaf that produced it
C24_Witness ==
    /\ ready /\ activePane = "content"
    /\ vpYOffset = 1
    /\ cursor \in 1..Len(items)
    /\ items[cursor].text \in commandRegistry

\* C25: the loop ends only on a quit key: every step that makes the
\* dispatcher return the quit command is the handling of "q" or "ctrl+c",
\* and once returned it stays.
C25_QuitOnlyOnQuitKey ==
    /\ [][quit' # quit => (quit' /\ \E k \in {"q", "ctrl+c"} : handleQuit(k))]_vars
    /\ [][(\/ frame.pc # "idle"
           \/ \E sz \in WindowSizes : Resize(sz)
           \/ EnterUnboundLeaf \/ EnterNormal \/ EnterIgnored
           \/ \E k \in Keys \ {"q", "ctrl+c"} : KeyNotReady(k) \/ KeyUnmapped(k))
          => ~quit']_vars

\* C25 witness: a command has failed and the window has shrunk below the
\* minimum since; the loop is still waiting for messages
C25_Witness ==
    /\ ~quit /\ frame.pc = "idle"
    /\ content = <<"Failed to execute command:", "command failed">>
    /\ ~ready
    /\ statusMessage = <<"Window too small - please resize">>

----------------------------------------------------------------------------
(* Model.View *)

\* the text of the status bar: the message, or the key hints of the pane
StatusText ==
    IF statusMessage # <<>> THEN statusMessage
    ELSE IF activePane = "menu" THEN <<"key hints", "? help">>
    ELSE <<"key hints", "Tab to menu">>

\* View with the help overlay taking precedence over the waiting message
View_HelpFirst ==
    IF showHelp THEN [screen |-> "help", parts |-> <<width, height>>]
    ELSE IF ~ready
    THEN [screen |-> "waiting",
          parts |-> <<"Initializing... (resize window if needed)">>]
    ELSE [screen |-> "main",
          parts |-> <<items, cursor, vpContent, vpYOffset, StatusText>>]

\* Model.View: what is rendered for the current state
View ==
    IF ~ready
    THEN [screen |-> "waiting",
          parts |-> <<"Initializing... (resize window if needed)">>]
    ELSE IF showHelp THEN [screen |-> "help", parts |-> <<width, height>>]
    ELSE [screen |-> "main",
          parts |-> <<items, cursor, vpContent, vpYOffset, StatusText>>]

\* C26: whenever the model is not ready the rendered frame is the waiting
\* message and nothing else, whatever showHelp, statusMessage and content
\* are; no step that leaves the model not ready sizes the list or the
\* viewport, and a layout update for a model that is not ready applies no
\* size (the one of Initialize included, which leaves all sizes 0).
C26_NotReadyView ==
    /\ (listW = 0 /\ listH = 0 /\ vpW = 0 /\ vpH = 0)
    /\ [](~ready => View = [screen |-> "waiting",
                            parts |-> <<"Initializing... (resize window if needed)">>])
    /\ [][~ready' => UNCHANGED <<listW, listH, vpW, vpH>>]_vars
    /\ [][\A sz \in WindowSizes :
            LayoutUpdate(FALSE, sz[1], sz[2]) => UNCHANGED <<listW, listH, vpW, vpH>>]_vars

\* C26 witness: the window is too small while the help overlay is switched
\* on and the content holds the output of a command
C26_Witness ==
    /\ ~ready
    /\ showHelp
    /\ content = <<"formatted output">>
    /\ statusMessage = <<"Window too small - please resize">>

\* the error e is one the loop that runs in r classifies as non-retryable:
\* the API client by RetryOnCode, a command by IsRetryableError
NonRetryable(r, e) ==
    /\ e # NilErr
    /\ IF r.kind = "command" THEN ~IsRetryableError(e) ELSE ~RetryOnCodeMatches(e)

\* the error value ret carries the error e: it is e or wraps it directly
Carries(ret, e) == ret = e \/ ret.cause = <<e>>

\* C27: a non-retryable failure short-circuits the remaining attempts. An
\* attempt that failed with an error classified as non-retryable is the last
\* invocation of the operation: the loop has returned, and it returned that
\* error.
C27_NonRetryableShortCircuits ==
    \A i \in 1..Len(retry.errs) :
        NonRetryable(retry, retry.errs[i])
            => /\ i = Len(retry.errs)
               /\ retry.pc = "done"
               /\ retry.ret # NilErr
               /\ Carries(retry.ret, retry.errs[i])

\* a GET with three attempts allowed failed with 503, then with 404, and
\* returned after the second attempt
C27_Witness ==
    /\ retry.pc = "done"
    /\ retry.kind = "GET"
    /\ retry.n = DefaultMaxRetries
    /\ retry.errs = <<OvhAPIError(503), OvhAPIError(404)>>
    /\ retry.ret = NewAPIError("API request failed", OvhAPIError(404), 404)

\* the retry loop in r runs an operation that modifies remote state
ModifiesRemoteState(r) ==
    \/ r.kind = "POST"
    \/ r.kind = "command" /\ r.cmdType \in {"Action", "Bulk"}

\* C28: retries are applied only to operations marked idempotent/read-only.
\* An operation that modifies remote state (a POST request, a command of
\* type Action or Bulk) is invoked at most once, however it fails.
C28_ModifyingAttemptedOnce ==
    ModifiesRemoteState(retry) => Len(retry.errs) <= 1

\* C29: a retried operation is attempted at most N times in total (N is
\* RetryCount for a command, MaxRetries for the API client); the loop
\* returns success at the first attempt that succeeds, without further
\* attempts, and when all attempts fail the error of the last attempt is
\* returned.
C29_AtMostNAttempts ==
    /\ Len(retry.errs) <= retry.n
    /\ \A i \in 1..Len(retry.errs) :
           retry.errs[i] = NilErr
               => /\ i = Len(retry.errs)
                  /\ retry.pc = "done"
                  /\ retry.ret = NilErr
    /\ (retry.pc = "done" /\ retry.ret = NilErr /\ retry.kind # "none")
           => (retry.errs # <<>> /\ retry.errs[Len(retry.errs)] = NilErr)
    /\ (retry.pc = "done" /\ retry.errs # <<>>
        /\ retry.errs[Len(retry.errs)] # NilErr /\ retry.ret # CtxErr)
           => Carries(retry.ret, retry.errs[Len(retry.errs)])

\* C30: any failure of the remote GET surfaces from GetAccountInfo as an
\* error value of type APIError, passed through unwrapped (the APIError that
\* Client.Get built around the remote error, with no further layer), together
\* with a nil account info; on success the returned info carries the remote
\* fields and the error is nil.
C30_AccountInfoErrors ==
    account.called =>
        /\ account.remoteErr # NilErr
               => /\ account.err.layer = "APIError"
                  /\ account.err.cause = <<account.remoteErr>>
                  /\ account.info = <<>>
        /\ account.remoteErr = NilErr
               => /\ account.err = NilErr
                  /\ account.info # <<>>
                  /\ account.info = account.remote

\* GetAccountInfo returned after the remote answered 401: nil info and the
\* authentication APIError of Client.Get
C30_Witness ==
    /\ account.called
    /\ account.remoteErr = OvhAPIError(401)
    /\ account.err = NewAuthError("Authentication failed", OvhAPIError(401))
    /\ account.info = <<>>

\* the warning HandleWindowSizeMsg sets for a window below the minimum
WindowTooSmall == <<"Window too small - please resize">>

\* C31: whenever the model is ready, the status message is not the
\* "Window too small - please resize" warning: a resize to a valid size after
\* a below-minimum resize clears or replaces that warning.
C31_NoStaleWarning ==
    ready => statusMessage # WindowTooSmall

\* C32: whenever the model is ready, the text held by the content viewport
\* equals the content of the model: after the first valid resize the
\* viewport shows the welcome content, and after every command it shows the
\* content written by that command.
C32_ViewportShowsContent ==
    ready => vpContent = content

\* the cursor is on the "Exit" item and Enter would activate it
OnExitItem ==
    /\ EnterOnItem
    /\ items[cursor].text = "Exit"
    /\ items[cursor].desc = "Exit the application"

\* C33: activating the "Exit" menu item (Enter while ready with the menu
\* pane active and the cursor on the item described "Exit the application")
\* ends the event loop: the handler of that Enter cannot return without
\* the quit command.
C33_ExitEndsLoop ==
    OnExitItem => ~ENABLED (EnterNormal /\ ~quit')

\* row i of its is the Header titled title at the given indent
IsHeaderRow(its, i, title, indent) ==
    /\ i \in 1..Len(its)
    /\ its[i].itemType = "Header"
    /\ its[i].text = title
    /\ its[i].indent = indent

\* C34: after activating a Header (top-level or nested) the menu cursor is on
\* the row of that same Header in the rebuilt list, whatever rows the
\* activation inserted or removed above it, rows removed by the accordion
\* collapse of another section included. The activation ends either in the
\* handler's own step or, when a listing is fetched, when the rebuild returns.
C34_CursorOnActivatedHeader ==
    [][/\ ((handleTopLevelHeader \/ handleNestedHeader)
               /\ items[cursor].itemType = "Header" /\ frame'.pc = "idle")
           => IsHeaderRow(items', cursor', items[cursor].text, items[cursor].indent)
       /\ (RebuildReturns /\ items[cursor].itemType = "Header")
           => IsHeaderRow(items', cursor', items[cursor].text, items[cursor].indent)]_vars

\* the rows listed under the top-level row i: those that follow it up to the
\* next top-level row
RowsUnder(its, i) ==
    {j \in (i + 1)..Len(its) : \A k \in (i + 1)..j : its[k].indent > 0}

\* the row of the top-level header with that title
TopHeaderRow(its, title) ==
    CHOOSE i \in 1..Len(its) : IsTopHeader(its[i]) /\ its[i].text = title

\* no nested header of its is expanded
NoNestedExpanded(its) ==
    \A i \in 1..Len(its) :
        (its[i].itemType = "Header" /\ its[i].indent > 0) => ~its[i].expanded

\* C35: a collapsed top-level header has no descendants in the flattened
\* list, and the expansion state of its nested headers is not remembered:
\* when a collapsed top-level header is expanded, the handler returns without
\* a remote fetch, the rows under the header are of indent 1 and collapsed
\* (no fetched rows), under "Bare Metal Cloud" they are exactly its two nested
\* headers, and while no nested header is expanded only the activation of a
\* nested header starts a fetch.
C35_CollapseForgetsNested ==
    /\ [](\A i \in 1..Len(items) :
             (IsTopHeader(items[i]) /\ ~items[i].expanded) => RowsUnder(items, i) = {})
    /\ [][(handleTopLevelHeader /\ ~items[cursor].expanded)
          => LET i == TopHeaderRow(items', items[cursor].text) IN
             /\ frame'.pc = "idle"
             /\ items'[i].expanded
             /\ \A j \in RowsUnder(items', i) :
                    items'[j].indent = 1 /\ ~items'[j].expanded
             /\ items[cursor].text = "Bare Metal Cloud"
                    => /\ Cardinality(RowsUnder(items', i)) = Cardinality(NestedTitles)
                       /\ \A t \in NestedTitles : \E j \in RowsUnder(items', i) :
                              items'[j].itemType = "Header" /\ items'[j].text = t]_vars
    /\ [][(frame.pc = "idle" /\ frame'.pc = "rebuild" /\ NoNestedExpanded(items))
          => (items[cursor].itemType = "Header" /\ items[cursor].indent = 1)]_vars

\* "Bare Metal Cloud" has just been expanded: its two nested headers are
\* listed, collapsed, with no fetched row
C35_Witness ==
    /\ LoopIdle
    /\ statusMessage = <<"Menu", "Bare Metal Cloud", "expanded">>
    /\ \E i \in 1..Len(items) :
          /\ IsTopHeader(items[i]) /\ items[i].text = "Bare Metal Cloud"
          /\ items[i].expanded
          /\ Cardinality(RowsUnder(items, i)) = 2
    /\ NoNestedExpanded(items)

\* C36: if application setup fails (configuration file missing or invalid,
\* logger setup failure, API client creation or credential validation
\* failure) the process terminates with the error exit code 1 and the UI
\* program is never started; exit code 0 is produced only after the UI ran
\* and ended without error.
C36_SetupFailureExitsWithError ==
    /\ (proc.setup \notin {"none", "ok"})
           => /\ ~proc.uiStarted
              /\ proc.pc = "exited" => proc.status = exitError
    /\ (proc.pc = "exited" /\ proc.status = exitSuccess)
           => (proc.uiStarted /\ ~proc.runErr)

\* C37: for every retry configuration of the API client (MaxRetries zero or
\* negative included), Get and Post return success (a nil error) only if the
\* underlying request was executed at least once and its final attempt
\* succeeded.
C37_SuccessMeansExecuted ==
    (retry.kind \in {"GET", "POST"} /\ retry.pc = "done" /\ retry.ret = NilErr)
        => /\ retry.errs # <<>>
           /\ retry.errs[Len(retry.errs)] = NilErr

\* C38: the worker started by a synchronous execute never blocks on handing
\* over its result. Whether or not the caller already returned on timeout,
\* once the bound operation has returned the send of the worker can complete
\* at once (the result channel has capacity 1 and sees one send), that send
\* ends the worker, and the worker does get there: no blocked sender is left.
C38_WorkerNeverBlocks ==
    /\ [](\A w \in WorkerIds :
            /\ Len(workers[w].ch) <= ResultChCap
            /\ workers[w].st = "sending"
                   => (workers[w].ch = <<>> /\ ENABLED WorkerSend(w)))
    /\ [][\A w \in WorkerIds :
            (workers[w].st = "sending" /\ workers'[w] # workers[w]
             /\ workers'[w].awaited = workers[w].awaited)
                => workers'[w].st \in {"exited", "free"}]_vars
    /\ \A w \in WorkerIds :
           (workers[w].st = "sending") ~> (workers[w].st # "sending")

\* the caller returned on timeout and the operation it abandoned has
\* returned since: its worker is handing over the result to nobody
C38_Witness ==
    /\ call.pc = "done"
    /\ call.out = TimeoutResult
    /\ workers[call.w].st = "sending"
    /\ ~workers[call.w].awaited

====
